---- MODULE Spec2Model ----
(***************************************************************************)
(* Model of cp_dataset.py: CPDataset (the sample builder) and CPDataLoader *)
(* (the cyclic batch sequencer built on torch.utils.data.DataLoader).      *)
(*                                                                         *)
(* Python lists are 0-based; a list is modelled as a sequence whose        *)
(* position k+1 holds the element of Python index k.                       *)
(* Normalised tensor values (the result of self.transform) are kept as     *)
(* integers over the denominator Unit = 255: the float t is t*255.         *)
(***************************************************************************)
EXTENDS Integers, Sequences, FiniteSets

\* ------------------------------------------------------------------ bounds
MaxN == 3          \* largest pair list
MaxBatch == 3      \* largest batch size
MaxPass == 2       \* passes opened after the first one
MaxPoints == 19    \* longest keypoint record (one beyond the 18 channels)
fine_height == 16  \* opt.fine_height of the modelled runs
fine_width == 16   \* opt.fine_width of the modelled runs

\* ------------------------------------------------------------------ program constants
radius == 3        \* opt.radius (default)
PoseChannels == 18 \* channels of pose_map
Unit == 255        \* the float 1.0 of a normalised tensor

\* ------------------------------------------------------------------ state
VARIABLES
  stage,        \* opt.stage
  shuffle,      \* opt.shuffle
  batch_size,   \* opt.batch_size
  im_names,     \* CPDataset.im_names
  c_names,      \* CPDataset.c_names
  broken,       \* indices of pairs with an asset file missing on disk
  loader,       \* outcome of CPDataLoader.__init__
  sampler,      \* the sampler the DataLoader ends up with
  data_iter,    \* CPDataLoader.data_iter: [order, pos]
  batch,        \* indices collated into the batch last returned
  raised,       \* exception surfaced by the last next_batch call
  passNo,       \* passes opened by next_batch so far
  callsInPass,  \* next_batch calls served by the current pass
  prevCalls,    \* next_batch calls the previous pass served
  seen,         \* indices delivered during the current pass, in order
  lost,         \* a batch of the current pass was aborted by a failing build
  disk,         \* the asset files under opt.dataroot that __getitem__ reads
  call,         \* arguments of the last __getitem__ call
  result        \* outcome of the last __getitem__ call

cfgVars == <<stage, shuffle, batch_size, im_names, c_names, broken, disk, loader, sampler>>
loaderVars == <<data_iter, batch, raised, passNo, callsInPass, prevCalls, seen, lost>>
datasetVars == <<call, result>>
vars == <<cfgVars, loaderVars, datasetVars>>

\* ------------------------------------------------------------------ helpers
Min(a, b) == IF a < b THEN a ELSE b

Range(s) == {s[i] : i \in 1..Len(s)}

\* len(self.im_names)
DatasetLen == Len(im_names)

\* ceil(n / b)
CeilDiv(n, b) == (n + b - 1) \div b

\* ------------------------------------------------------------------ CPDataLoader
\* opt.shuffle selects an explicit RandomSampler, else no sampler.
train_sampler(optShuffle) == IF optShuffle THEN "Random" ELSE "None"

\* DataLoader(shuffle=..., sampler=...): an explicit sampler excludes shuffle;
\* without one, shuffle picks RandomSampler and otherwise SequentialSampler.
DataLoaderSampler(shuffleArg, samplerArg) ==
  IF samplerArg # "None"
  THEN (IF shuffleArg THEN "ValueError" ELSE samplerArg)
  ELSE (IF shuffleArg THEN "Random" ELSE "Sequential")

\* shuffle=(train_sampler is None), sampler=train_sampler
LoaderSampler(optShuffle) ==
  DataLoaderSampler(train_sampler(optShuffle) = "None", train_sampler(optShuffle))

\* RandomSampler rejects an empty data source (num_samples must be positive).
LoaderCtor(optShuffle, n) ==
  IF LoaderSampler(optShuffle) = "ValueError" THEN "ValueError"
  ELSE IF LoaderSampler(optShuffle) = "Random" /\ n = 0 THEN "ValueError"
  ELSE "ready"

\* A sampler that draws with replacement.
SamplerOrders_replacement(kind, n) == [1..n -> 0..(n - 1)]

\* The orders one pass of the sampler can produce over n items.
SamplerOrders(kind, n) ==
  IF kind = "Sequential"
  THEN {[i \in 1..n |-> i - 1]}
  ELSE {o \in [1..n -> 0..(n - 1)] : \A i, j \in 1..n : o[i] = o[j] => i = j}

\* End offset of the batch starting at pos (drop_last is left at False).
BatchEnd(pos, b, n) == Min(pos + b, n)

\* An iterator that drops the short last batch (drop_last=True).
IterNext_drop_last(it) ==
  IF it.pos + batch_size <= Len(it.order)
  THEN [kind |-> "batch",
        idx  |-> SubSeq(it.order, it.pos + 1, it.pos + batch_size),
        it   |-> [it EXCEPT !.pos = it.pos + batch_size]]
  ELSE [kind |-> "StopIteration", idx |-> <<>>, it |-> it]

\* next(self.data_iter): the next batch of indices, or StopIteration.
IterNext(it) ==
  IF it.pos < Len(it.order)
  THEN [kind |-> "batch",
        idx  |-> SubSeq(it.order, it.pos + 1, BatchEnd(it.pos, batch_size, Len(it.order))),
        it   |-> [it EXCEPT !.pos = BatchEnd(it.pos, batch_size, Len(it.order))]]
  ELSE [kind |-> "StopIteration", idx |-> <<>>, it |-> it]

\* The DataLoader builds every sample of the batch; one failing build aborts it.
Fetch(idx) ==
  IF \E i \in 1..Len(idx) : idx[i] \in broken THEN "FileNotFoundError" ELSE "none"

\* Outcome of one next() on the iterator, as next_batch's caller sees it.
Deliver(r, reopened) ==
  /\ data_iter' = r.it
  /\ raised' = IF r.kind = "StopIteration" THEN "StopIteration" ELSE Fetch(r.idx)
  /\ batch' = IF r.kind = "batch" /\ Fetch(r.idx) = "none" THEN r.idx ELSE <<>>
  /\ passNo' = IF reopened THEN passNo + 1 ELSE passNo
  /\ callsInPass' = IF reopened THEN 1 ELSE callsInPass + 1
  /\ prevCalls' = IF reopened THEN callsInPass ELSE prevCalls
  /\ seen' = (IF reopened THEN <<>> ELSE seen)
             \o (IF r.kind = "batch" /\ Fetch(r.idx) = "none" THEN r.idx ELSE <<>>)
  /\ lost' = ((IF reopened THEN FALSE ELSE lost)
              \/ (r.kind = "batch" /\ Fetch(r.idx) # "none"))

\* next_batch without the except branch (the exhaustion reaches the caller).
next_batch_no_reopen ==
  /\ loader = "ready"
  /\ passNo < MaxPass \/ data_iter.pos < Len(data_iter.order)
  /\ Deliver(IterNext(data_iter), FALSE)
  /\ UNCHANGED <<cfgVars, datasetVars>>

\* CPDataLoader.next_batch
next_batch ==
  /\ loader = "ready"
  /\ passNo < MaxPass \/ data_iter.pos < Len(data_iter.order)
  /\ IF IterNext(data_iter).kind # "StopIteration"
     THEN Deliver(IterNext(data_iter), FALSE)
     ELSE \E o \in SamplerOrders(sampler, DatasetLen) :
            Deliver(IterNext([order |-> o, pos |-> 0]), TRUE)
  /\ UNCHANGED <<cfgVars, datasetVars>>

\* ------------------------------------------------------------------ CPDataset
Abs(a) == IF a < 0 THEN 0 - a ELSE a

\* Pixels of a raster of the given size, in row-major order: pixel k is at
\* column k % w of row k \div w.
Pixels(w, h) == 0..(w * h - 1)

PX(k, w) == k % w

PY(k, w) == k \div w

\* self.transform on one 8-bit value: ToTensor (v/255), then Normalize(0.5, 0.5).
transform(v) == 2 * v - Unit

\* self.transform on an 8-bit raster with the given channels.
TransformImage(img) ==
  [w |-> img.w, h |-> img.h,
   ch |-> [c \in 1..Len(img.ch) |-> [p \in Pixels(img.w, img.h) |-> transform(img.ch[c][p])]]]

\* Image.convert('RGB') of a single-channel raster: the channel three times.
ConvertRGB(img) == [w |-> img.w, h |-> img.h, ch |-> <<img.ch[1], img.ch[1], img.ch[1]>>]

\* Python list indexing: negative indices count from the end.
ListIndex_wrap(list, index) ==
  IF Len(list) = 0 THEN [ok |-> FALSE, pos |-> 0]
  ELSE [ok |-> TRUE, pos |-> (index % Len(list)) + 1]

ListIndex(list, index) ==
  IF index >= Len(list) \/ index < 0 - Len(list)
  THEN [ok |-> FALSE, pos |-> 0]
  ELSE [ok |-> TRUE, pos |-> (IF index < 0 THEN index + Len(list) ELSE index) + 1]

\* Sub-folders the garment and its mask are read from.
ClothFolders(stg) ==
  IF stg = "GMM" THEN <<"cloth", "cloth-mask">> ELSE <<"warp-cloth", "warp-mask">>

\* The person photo of a pair, as stored on disk (8-bit RGB).
PersonFile(name) ==
  [w |-> disk.imSize[1], h |-> disk.imSize[2],
   ch |-> [c \in 1..3 |-> [p \in Pixels(disk.imSize[1], disk.imSize[2]) |->
             (41 * name + 85 * (c - 1) + 3 * PX(p, disk.imSize[1]) + 5 * PY(p, disk.imSize[1])) % 256]]]

\* The segmentation-label raster of a pair, as stored on disk (8-bit labels).
ParseFile(name) ==
  [w |-> disk.parseSize[1], h |-> disk.parseSize[2],
   px |-> [p \in Pixels(disk.parseSize[1], disk.parseSize[2]) |->
             (name + p) % 256]]

\* (parse_array > 0)
parse_shape_mask(L) == IF L > 0 THEN 1 ELSE 0

\* (parse_array == 1) + (== 2) + (== 4) + (== 13)
parse_head(L) ==
  (IF L = 1 THEN 1 ELSE 0) + (IF L = 2 THEN 1 ELSE 0)
  + (IF L = 4 THEN 1 ELSE 0) + (IF L = 13 THEN 1 ELSE 0)

\* A cloth mask that counts label 5 twice and misses label 7.
parse_cloth_dup(L) ==
  (IF L = 5 THEN 1 ELSE 0) + (IF L = 6 THEN 1 ELSE 0) + (IF L = 5 THEN 1 ELSE 0)

\* (parse_array == 5) + (== 6) + (== 7)
parse_cloth(L) ==
  (IF L = 5 THEN 1 ELSE 0) + (IF L = 6 THEN 1 ELSE 0) + (IF L = 7 THEN 1 ELSE 0)

\* torch broadcasting of two trailing dimensions.
Broadcastable(a, b) == a = b \/ a = 1 \/ b = 1

\* im * pcm + (1 - pcm)
im_c(im, parse) ==
  [w |-> im.w, h |-> im.h,
   ch |-> [c \in 1..3 |-> [p \in Pixels(im.w, im.h) |->
             im.ch[c][p] * parse_cloth(parse.px[p]) + (1 - parse_cloth(parse.px[p])) * Unit]]]

\* im * phead - (1 - phead)
im_h(im, parse) ==
  [w |-> im.w, h |-> im.h,
   ch |-> [c \in 1..3 |-> [p \in Pixels(im.w, im.h) |->
             im.ch[c][p] * parse_head(parse.px[p]) - (1 - parse_head(parse.px[p])) * Unit]]]

\* Weight (times 2n) of source position x in the one output pixel of a
\* bilinear reduction of n positions: the triangle filter centred at n/2.
TriWeight(x, n) == 2 * n - Abs(2 * x + 1 - n)

RECURSIVE WeightedSum(_, _, _)
WeightedSum(f, n, x) ==
  IF x = n THEN 0 ELSE TriWeight(x, n) * f[x] + WeightedSum(f, n, x + 1)

RECURSIVE WeightTotal(_, _)
WeightTotal(n, x) == IF x = n THEN 0 ELSE TriWeight(x, n) + WeightTotal(n, x + 1)

\* Rounded triangle-weighted mean of f over 0..n-1.
Reduce1(f, n) == (2 * WeightedSum(f, n, 0) + WeightTotal(n, 0)) \div (2 * WeightTotal(n, 0))

\* parse_shape * 255 resized to (fine_width // 16, fine_height // 16) and back to
\* (fine_width, fine_height); for a 1 x 1 intermediate the result is one value
\* everywhere (rows reduced first, then the column of row values).
ShapeImage(parse) ==
  LET rows == [y \in 0..(parse.h - 1) |->
                 Reduce1([x \in 0..(parse.w - 1) |-> 255 * parse_shape_mask(parse.px[x + parse.w * y])],
                         parse.w)]
      v == Reduce1(rows, parse.h)
  IN [w |-> fine_width, h |-> fine_height,
      ch |-> <<[p \in Pixels(fine_width, fine_height) |-> v]>>]

\* The tensor kept whole (all the channels the RGB conversion made).
KeepChannels(t) == t

\* if shape.size(0) != 1: shape = shape[0:1, :, :]
FirstChannel(t) ==
  IF Len(t.ch) # 1 THEN [w |-> t.w, h |-> t.h, ch |-> <<t.ch[1]>>] ELSE t

\* np.array(pose_data).reshape((-1, 3)) on the flat list of the keypoint record
Reshape3(flat) ==
  IF Len(flat) % 3 # 0 THEN [ok |-> FALSE, rows |-> <<>>]
  ELSE [ok |-> TRUE,
        rows |-> [i \in 1..(Len(flat) \div 3) |->
                    <<flat[3 * i - 2], flat[3 * i - 1], flat[3 * i]>>]]

\* The validity test with "or" in place of "and".
PointValid_or(pt) == pt[1] > 1 \/ pt[2] > 1

\* if pointx > 1 and pointy > 1
PointValid(pt) == pt[1] > 1 /\ pt[2] > 1

\* one_map after the optional draw.rectangle(..., 'white', 'white'), 8-bit
one_map(pt) ==
  [w |-> fine_width, h |-> fine_height,
   ch |-> <<[p \in Pixels(fine_width, fine_height) |->
              IF /\ PointValid(pt)
                 /\ pt[1] - radius <= PX(p, fine_width) /\ PX(p, fine_width) <= pt[1] + radius
                 /\ pt[2] - radius <= PY(p, fine_width) /\ PY(p, fine_width) <= pt[2] + radius
              THEN 255 ELSE 0]>>]

\* pose_map: torch.zeros(18, H, W) with channel i overwritten for i < min(18, point_num)
pose_map(rows) ==
  [w |-> fine_width, h |-> fine_height,
   ch |-> [i \in 1..PoseChannels |->
             IF i <= Min(PoseChannels, Len(rows))
             THEN TransformImage(ConvertRGB(one_map(rows[i]))).ch[1]
             ELSE [p \in Pixels(fine_width, fine_height) |-> 0]]]

\* im_pose: Image.new('L', ...) on which nothing is drawn, converted and transformed
im_pose ==
  TransformImage(ConvertRGB(
    [w |-> fine_width, h |-> fine_height,
     ch |-> <<[p \in Pixels(fine_width, fine_height) |-> 0]>>]))

\* torch.cat([...], 0) needs equal spatial sizes <<w, h>>
CatOK(sizes) == \A i, j \in 1..Len(sizes) : sizes[i] = sizes[j]

\* torch.cat([a, b, c], 0)
Cat3(a, b, c) == [w |-> a.w, h |-> a.h, ch |-> a.ch \o b.ch \o c.ch]

\* The sample record __getitem__ returns for list position pos.
Sample(pos) ==
  LET im == TransformImage(PersonFile(im_names[pos]))
      parse == ParseFile(im_names[pos])
      shape == FirstChannel(TransformImage(ConvertRGB(ShapeImage(parse))))
      head == im_h(im, parse)
      rows == Reshape3(disk.pose).rows
  IN [kind |-> "sample",
      c_name |-> c_names[pos],
      im_name |-> im_names[pos],
      cloth |-> ClothFolders(stage)[1],
      cloth_mask |-> ClothFolders(stage)[2],
      image |-> im,
      agnostic |-> Cat3(shape, head, pose_map(rows)),
      parse_cloth |-> im_c(im, parse),
      shape |-> shape,
      head |-> head,
      pose_image |-> im_pose,
      grid_image |-> IF stage = "GMM" THEN "grid.png" ELSE ""]

\* Outcome of __getitem__(index): the sample, or the exception that ends it.
Build(index) ==
  LET at == ListIndex(c_names, index) IN
  IF ~at.ok THEN [kind |-> "IndexError"]
  ELSE IF (at.pos - 1) \in broken THEN [kind |-> "FileNotFoundError"]
  ELSE IF fine_width \div 16 = 0 \/ fine_height \div 16 = 0 THEN [kind |-> "ValueError"]
  ELSE IF ~(/\ Broadcastable(disk.imSize[1], disk.parseSize[1])
            /\ Broadcastable(disk.imSize[2], disk.parseSize[2]))
       THEN [kind |-> "RuntimeError"]
  ELSE IF ~Reshape3(disk.pose).ok THEN [kind |-> "ValueError"]
  ELSE IF ~CatOK(<<(<<fine_width, fine_height>>), disk.imSize, (<<fine_width, fine_height>>)>>)
       THEN [kind |-> "RuntimeError"]
  ELSE IF stage = "GMM" /\ ~disk.grid THEN [kind |-> "FileNotFoundError"]
  ELSE Sample(at.pos)

\* CPDataset.__getitem__
GetItem(index) ==
  /\ call' = [index |-> index, done |-> TRUE]
  /\ result' = Build(index)
  /\ UNCHANGED <<cfgVars, loaderVars>>

\* ------------------------------------------------------------------ construction
StageValues == {"GMM", "TOM", "HD"}

\* Keypoints a crafted record is made of: undetected (0, 0), one coordinate
\* at or below the threshold, markers inside, at the edge of and off the canvas.
PointPalette ==
  <<<<5, 6, 9>>, <<0, 0, 0>>, <<12, 3, 8>>, <<1, 7, 5>>,
    <<15, 15, 7>>, <<9, 1, 4>>, <<2, 2, 6>>, <<40, 9, 3>>>>

\* The flat list of a keypoint record of n points, cycling through the palette.
PoseRecord(n) ==
  [k \in 1..(3 * n) |->
     PointPalette[(((k - 1) \div 3) % Len(PointPalette)) + 1][((k - 1) % 3) + 1]]

\* The keypoint records on disk: 0 to MaxPoints points, and one malformed list.
PoseFiles == {PoseRecord(n) : n \in 0..MaxPoints} \cup {<<5, 6, 9, 7>>}

\* Sizes (w, h) an image file on disk can have.
FileSizes == {<<fine_width, fine_height>>, <<fine_width + 1, fine_height>>}

\* The pair list read by CPDataset.__init__, and the pairs with a missing asset.
InitPairs(brokenSets) ==
  \E n \in 0..MaxN :
    /\ im_names = [i \in 1..n |-> i - 1]
    /\ c_names = [i \in 1..n |-> 100 + i - 1]
    /\ broken \in {s \in brokenSets : s \subseteq 0..(n - 1)}

InitLoaderState ==
  /\ loader = LoaderCtor(shuffle, DatasetLen)
  /\ sampler = LoaderSampler(shuffle)
  /\ IF LoaderCtor(shuffle, DatasetLen) = "ready"
     THEN \E o \in SamplerOrders(LoaderSampler(shuffle), DatasetLen) :
            data_iter = [order |-> o, pos |-> 0]
     ELSE data_iter = [order |-> <<>>, pos |-> 0]
  /\ batch = <<>>
  /\ raised = "none"
  /\ passNo = 0
  /\ callsInPass = 0
  /\ prevCalls = 0
  /\ seen = <<>>
  /\ lost = FALSE
  /\ call = [index |-> 0, done |-> FALSE]
  /\ result = [kind |-> "none"]

\* State after CPDataset(opt) and CPDataLoader(opt, dataset), well-formed assets.
InitLoader ==
  /\ stage = "GMM"
  /\ shuffle \in BOOLEAN
  /\ batch_size \in 1..MaxBatch
  /\ InitPairs({{}} \cup {{i} : i \in 0..(MaxN - 1)})
  /\ disk = [pose |-> PoseRecord(PoseChannels), grid |-> TRUE,
             imSize |-> <<fine_width, fine_height>>,
             parseSize |-> <<fine_width, fine_height>>]
  /\ InitLoaderState

\* State after CPDataset(opt) over any of the modelled asset trees.
InitDataset ==
  /\ stage \in StageValues
  /\ shuffle = FALSE
  /\ batch_size = 1
  /\ InitPairs({{}, {0}})
  /\ \E pf \in PoseFiles, g \in BOOLEAN, is \in FileSizes, ps \in FileSizes :
       /\ \/ pf = PoseRecord(PoseChannels)
          \/ g /\ is = <<fine_width, fine_height>> /\ ps = is /\ DatasetLen = 1 /\ broken = {}
       /\ disk = [pose |-> pf, grid |-> g, imSize |-> is, parseSize |-> ps]
  /\ InitLoaderState

NextLoader == next_batch

SpecLoader == InitLoader /\ [][NextLoader]_vars

NextDataset == \E index \in (0 - MaxN - 1)..(MaxN + 1) : GetItem(index)

SpecDataset == InitDataset /\ [][NextDataset]_vars

\* ------------------------------------------------------------------ properties of CPDataLoader
\* Indices of the k-th batch (k = 0, 1, ...) of a pass in insertion order.
InsertionBatch(k) ==
  [i \in 1..(Min((k + 1) * batch_size, DatasetLen) - k * batch_size) |-> k * batch_size + i - 1]

\* C1: with the shuffle flag off, the k-th batch of every pass holds the indices
\* k*B .. min((k+1)*B, N)-1 in ascending order.
C1_SequentialInsertionOrder ==
  (loader = "ready" /\ ~shuffle /\ callsInPass > 0 /\ raised = "none")
    => batch = InsertionBatch(callsInPass - 1)

\* C2: no next_batch call surfaces StopIteration; the call that finds the pass
\* exhausted opens a fresh pass and returns that pass's first batch.
C2_NoExhaustionSignal ==
  /\ raised # "StopIteration"
  /\ (passNo > 0 /\ callsInPass = 1 /\ raised = "none")
       => /\ batch # <<>>
          /\ batch = SubSeq(data_iter.order, 1, Min(batch_size, DatasetLen))

C2_Witness ==
  /\ passNo > 0 /\ callsInPass = 1 /\ raised = "none"
  /\ batch # <<>>
  /\ prevCalls >= 2

\* C3: within a pass no index is delivered twice, and when the pass is exhausted
\* with every build having succeeded the batches held every index of [0, N).
C3_EachIndexOncePerPass ==
  loader = "ready" =>
    /\ \A i, j \in 1..Len(seen) : seen[i] = seen[j] => i = j
    /\ (data_iter.pos = Len(data_iter.order) /\ ~lost) => Range(seen) = 0..(DatasetLen - 1)
    /\ Len(data_iter.order) = DatasetLen

C3_Witness ==
  /\ loader = "ready" /\ passNo > 0 /\ ~lost
  /\ data_iter.pos = Len(data_iter.order)
  /\ Len(seen) >= 3
  /\ seen # [i \in 1..Len(seen) |-> i - 1]

\* C10: every returned batch lies within the current pass; it has B samples,
\* except the last of the pass, which has N - B*(ceil(N/B)-1); a pass is
\* exactly ceil(N/B) next_batch calls.
C10_BatchesOfOnePass ==
  (loader = "ready" /\ callsInPass > 0) =>
    /\ callsInPass <= CeilDiv(DatasetLen, batch_size)
    /\ passNo > 0 => prevCalls = CeilDiv(DatasetLen, batch_size)
    /\ raised = "none" =>
         /\ Len(batch) = IF callsInPass < CeilDiv(DatasetLen, batch_size)
                         THEN batch_size
                         ELSE DatasetLen - batch_size * (CeilDiv(DatasetLen, batch_size) - 1)
         /\ batch = SubSeq(data_iter.order, (callsInPass - 1) * batch_size + 1,
                           (callsInPass - 1) * batch_size + Len(batch))

C10_Witness ==
  /\ loader = "ready" /\ passNo > 0 /\ raised = "none"
  /\ callsInPass = CeilDiv(DatasetLen, batch_size)
  /\ callsInPass >= 2
  /\ Len(batch) > 0 /\ Len(batch) < batch_size

\* ------------------------------------------------------------------ properties of CPDataset
\* The keypoints of the record on disk, one row per point.
PoseRows == Reshape3(disk.pose).rows

\* The label of pixel p in the raster of the pair last built.
LabelAt(p) == ParseFile(result.im_name).px[p]

\* C4 as stated: every index below 0 or at or above pair_count fails with IndexError.
C4_OnlyZeroToCountAccepted ==
  (call.done /\ (call.index < 0 \/ call.index >= DatasetLen)) => result.kind = "IndexError"

\* C4 amended: every index below -pair_count or at or above pair_count fails
\* with IndexError; an index in [-pair_count, -1] addresses pair pair_count+index.
C4_OutOfRangeFails ==
  call.done =>
    /\ (call.index < 0 - DatasetLen \/ call.index >= DatasetLen) => result.kind = "IndexError"
    /\ (call.index < 0 /\ result.kind = "sample")
         => /\ call.index >= 0 - DatasetLen
            /\ result.im_name = im_names[DatasetLen + call.index + 1]
            /\ result.c_name = c_names[DatasetLen + call.index + 1]

C4_Witness ==
  /\ call.done /\ DatasetLen >= 2
  /\ call.index = DatasetLen
  /\ result.kind = "IndexError"

\* C5: under a stage that is neither GMM nor TOM no sample is ever produced.
C5_UnknownStageNeverBuilds ==
  stage \notin {"GMM", "TOM"} => result.kind # "sample"

\* C6: a pixel of pose_overlay is +1 exactly when it is +1 in at least one of
\* the 18 pose heatmap channels, and -1 otherwise.
C6_OverlayAccumulatesMarkers ==
  result.kind = "sample" =>
    \A c \in 1..3 : \A p \in Pixels(fine_width, fine_height) :
      result.pose_image.ch[c][p] =
        IF \E i \in 1..PoseChannels : result.agnostic.ch[4 + i][p] = Unit
        THEN Unit ELSE 0 - Unit

\* C7 as stated: the channel of a keypoint with x <= 1 or y <= 1 is all-zero.
C7_InvalidPointChannelZero ==
  result.kind = "sample" =>
    \A i \in 1..Min(PoseChannels, Len(PoseRows)) :
      (PoseRows[i][1] <= 1 \/ PoseRows[i][2] <= 1)
        => \A p \in Pixels(fine_width, fine_height) : result.agnostic.ch[4 + i][p] = 0

\* C7 amended: the channel of a keypoint with x <= 1 or y <= 1 holds no marker:
\* it is at the background value -1 at every pixel, whereas the channel of a
\* keypoint missing from the record is all-zero.
C7_InvalidPointChannelBackground ==
  result.kind = "sample" =>
    /\ \A i \in 1..Min(PoseChannels, Len(PoseRows)) :
         (PoseRows[i][1] <= 1 \/ PoseRows[i][2] <= 1)
           => \A p \in Pixels(fine_width, fine_height) : result.agnostic.ch[4 + i][p] = 0 - Unit
    /\ \A i \in (Len(PoseRows) + 1)..PoseChannels :
         \A p \in Pixels(fine_width, fine_height) : result.agnostic.ch[4 + i][p] = 0

C7_Witness ==
  /\ result.kind = "sample"
  /\ Len(PoseRows) < PoseChannels
  /\ \E i, j \in 1..Len(PoseRows) :
       /\ PoseRows[i][1] <= 1 /\ PoseRows[i][2] > 1
       /\ PoseRows[j][1] > 1 /\ PoseRows[j][2] <= 1

\* C8: agnostic has exactly 22 channels, 1 body shape, 3 head, 18 pose heatmaps
\* in that order, each of the configured size, whatever the number of keypoints.
C8_AgnosticLayout ==
  result.kind = "sample" =>
    /\ Len(result.agnostic.ch) = 22
    /\ result.agnostic.w = fine_width /\ result.agnostic.h = fine_height
    /\ \A c \in 1..Len(result.agnostic.ch) :
         DOMAIN result.agnostic.ch[c] = Pixels(fine_width, fine_height)
    /\ Len(result.shape.ch) = 1 /\ Len(result.head.ch) = 3
    /\ result.agnostic.ch[1] = result.shape.ch[1]
    /\ \A c \in 1..3 : result.agnostic.ch[1 + c] = result.head.ch[c]
    /\ \A i \in 1..PoseChannels : \A p \in Pixels(fine_width, fine_height) :
         result.agnostic.ch[4 + i][p] \in {0 - Unit, 0, Unit}

C8_Witness ==
  /\ result.kind = "sample"
  /\ Len(PoseRows) > PoseChannels
  /\ \E i \in 1..PoseChannels : \E p \in Pixels(fine_width, fine_height) :
       result.agnostic.ch[4 + i][p] = Unit

====
